---- MODULE Spec2Model ----
(***************************************************************************)
(* Model of vercel_scraper.py: the page fetcher (fetch_page), the          *)
(* pagination driver with its credential renewal gate (fetch_all_pages),   *)
(* the field extractor (extract_needed_fields), the result sink            *)
(* (append_results_to_file) and the event logger (log_message).            *)
(*                                                                         *)
(* Python strings are sequences of one-character strings, so that          *)
(* str.lower(), str.strip() and the substring test `in` are computed, not  *)
(* assumed.                                                                *)
(***************************************************************************)
EXTENDS Integers, Sequences, FiniteSets, TLC

VARIABLES
    pc,                       \* position of the single thread of control: "main",
                              \*   "start" (fetch_all_pages entered), "fetch_page"
                              \*   (before an HTTP request), "returned" (fetch_page
                              \*   returned), "gate" (blocked in input()), "done",
                              \*   "stopped", "exit" (main returned at once),
                              \*   "fault_fetch" / "fault_extract" (an exception
                              \*   nothing catches left fetch_page / the extractor)
    query,                    \* fetch_all_pages: query
    session_id,               \* fetch_all_pages: session_id (x-search-session header)
    start_page,               \* fetch_all_pages: start_page
    current_page,             \* fetch_all_pages: current_page
    total_pages,              \* fetch_all_pages: total_pages (NoneInt = None)
    total_results_collected,  \* fetch_all_pages: total_results_collected
    attempt,                  \* fetch_page: attempt
    page_data,                \* fetch_all_pages: page_data, as fetch_page returned it
    error_type,               \* fetch_all_pages: error_type, as fetch_page returned it
                              \*   (both are dead while a call is running and are
                              \*   shown as None until it returns)
    output_file,              \* search_results/output.json: a list of filtered records
    log,                      \* search_results/scraper.log: one entry per log_message call
    http_attempts,            \* history: HTTP requests sent by the current fetch_page call
    call_timeouts,            \* history: how many of them timed out
    call_log_start,           \* history: Len(log) when the current fetch_page call began
    response_status,          \* history: status code of the response the current
                              \*   fetch_page call received last (0: none yet)
    sent,                     \* history: (page, credential) of the last HTTP request
    appended,                 \* history: cursor value at each append_results_to_file call
    renewals,                 \* history: replacement credentials installed by the gate
    run,                      \* history: 1 in the first invocation of the program, 2 in
                              \*   an invocation that resumes a stopped one
    first_start,              \* history: start_page of the first invocation (set when
                              \*   the second one begins)
    sink_at_start,            \* history: records output.json held when this invocation
                              \*   began
    last_outcome              \* history: what the last requests.get call produced
                              \*   (kept only where a single fetch_page call is studied)

\* the history variables that the steps of one invocation leave alone
invocation == << run, first_start, sink_at_start >>

vars == << pc, query, session_id, start_page, current_page, total_pages,
           total_results_collected, attempt, page_data, error_type, output_file,
           log, http_attempts, call_timeouts, call_log_start, response_status, sent, appended,
           renewals, run, first_start, sink_at_start, last_outcome >>

----------------------------------------------------------------------------
(* Bounds of the model. *)

\* Largest page number the operator starts from and the API reports as totalPages.
MaxPages == 2

\* The operator supplies replacement credentials while scraper.log has fewer than
\* MaxLog lines; after that the only answer at the gate is 'quit'.
MaxLog == 5

----------------------------------------------------------------------------
(* Python strings. *)

UpperCase == <<"A","B","C","D","E","F","G","H","I","J","K","L","M",
               "N","O","P","Q","R","S","T","U","V","W","X","Y","Z">>
LowerCase == <<"a","b","c","d","e","f","g","h","i","j","k","l","m",
               "n","o","p","q","r","s","t","u","v","w","x","y","z">>

UpperSet == { UpperCase[i] : i \in 1..Len(UpperCase) }

LowerOf == [c \in UpperSet |-> LowerCase[CHOOSE i \in 1..Len(UpperCase) : UpperCase[i] = c]]

\* str.lower() on one character
LowerChar(c) == IF c \in UpperSet THEN LowerOf[c] ELSE c

\* str.lower()
Lower(s) == [i \in 1..Len(s) |-> LowerChar(s[i])]

\* w in s, for strings
Contains(s, w) ==
    \E i \in 0..(Len(s) - Len(w)) : \A j \in 1..Len(w) : s[i + j] = w[j]

IsSpace(c) == c \in {" ", "\t", "\n"}

RECURSIVE LStrip(_)
LStrip(s) == IF s # <<>> /\ IsSpace(Head(s)) THEN LStrip(Tail(s)) ELSE s

RECURSIVE RStrip(_)
RStrip(s) ==
    IF s # <<>> /\ IsSpace(s[Len(s)]) THEN RStrip(SubSeq(s, 1, Len(s) - 1)) ELSE s

\* str.strip()
Strip(s) == RStrip(LStrip(s))

\* str(n) for a page number
RECURSIVE IntToStr(_)
IntToStr(n) ==
    LET digit == <<"0","1","2","3","4","5","6","7","8","9">>[(n % 10) + 1]
    IN  IF n < 10 THEN <<digit>> ELSE IntToStr(n \div 10) \o <<digit>>

\* urlencode of one query character, as requests builds the URL (space -> +)
QuoteChar(c) == IF c = " " THEN "+" ELSE c

QuotePlus(s) == [i \in 1..Len(s) |-> QuoteChar(s[i])]

Str_recaptcha == <<"r","e","c","a","p","t","c","h","a">>
Str_session   == <<"s","e","s","s","i","o","n">>
Str_quit      == <<"q","u","i","t">>

Str_acme        == <<"a","c","m","e">>
Str_SessionInc  == <<"S","e","s","s","i","o","n"," ","I","n","c">>
Str_s1          == <<"s","1">>
Str_s2          == <<"s","2">>
Str_QuitPadded  == <<" ","Q","u","i","t">>
Str_Blank       == <<" "," ">>
Str_SessionExpired == <<"S","e","s","s","i","o","n"," ","e","x","p","i","r","e","d">>
Str_ReCaptchaRequired ==
    <<"R","e","C","A","P","T","C","H","A"," ","r","e","q","u","i","r","e","d">>
Str_RateLimit   == <<"r","a","t","e"," ","l","i","m","i","t">>

----------------------------------------------------------------------------
(* JSON values, as response.json() returns them. *)

JStr(s) == [t |-> "str", s |-> s]
JNull   == [t |-> "null", s |-> <<>>]
JNum(s) == [t |-> "num", s |-> s]

\* dict.get(key, default)
Get(d, key, default) == IF key \in DOMAIN d THEN d[key] ELSE default

\* A raw result record: its top-level keys, and its 'agent' value, which is absent
\* ("absent"), JSON null ("null"), a JSON string ("str") or an object ("obj") with
\* its own keys.
RawRecord(top, agentKind, agentFields) ==
    [top |-> top, agent |-> [t |-> agentKind, f |-> agentFields]]

NoFields == [k \in {} |-> JNull]

RawFull ==
    RawRecord( [k \in {"businessName", "registrationId", "status", "filingDate"} |->
                  CASE k = "businessName"   -> JStr(<<"A">>)
                    [] k = "registrationId" -> JStr(<<"1">>)
                    [] k = "status"         -> JStr(<<"a">>)
                    [] k = "filingDate"     -> JStr(<<"2">>)],
               "obj",
               [k \in {"name", "address", "email"} |->
                  CASE k = "name"    -> JStr(<<"J">>)
                    [] k = "address" -> JStr(<<"M">>)
                    [] k = "email"   -> JStr(<<"@">>)] )

RawNameOnly ==
    RawRecord([k \in {"businessName"} |-> JStr(<<"B">>)], "absent", NoFields)

RawNullAgent ==
    RawRecord([k \in {"businessName"} |-> JStr(<<"C">>)], "null", NoFields)

\* The parsed body of a response. json: "invalid" (response.json() raises), "array"
\* (valid JSON that is not an object), "object"; "none" is Python's None.
Body(json, hasError, error, hasTotalPages, totalPages, hasResults, results) ==
    [json |-> json, hasError |-> hasError, error |-> error,
     hasTotalPages |-> hasTotalPages, totalPages |-> totalPages,
     hasResults |-> hasResults, results |-> results]

None == Body("none", FALSE, JNull, FALSE, 0, FALSE, <<>>)

\* total_pages = None
NoneInt == -1

\* A page of two records, reporting tp pages in all.
PageBody(tp) == Body("object", FALSE, JNull, TRUE, tp, TRUE, <<RawFull, RawNameOnly>>)

PageBodies ==
    { PageBody(tp) : tp \in 1..MaxPages }
    \cup { Body("object", FALSE, JNull, TRUE, 1, TRUE, <<RawNullAgent>>) }

ErrorBodies ==
    { Body("object", TRUE, JStr(Str_SessionExpired), FALSE, 0, FALSE, <<>>),
      Body("object", TRUE, JStr(Str_ReCaptchaRequired), FALSE, 0, FALSE, <<>>),
      Body("object", TRUE, JStr(Str_RateLimit), FALSE, 0, FALSE, <<>>),
      Body("object", TRUE, JStr(Str_RateLimit), TRUE, MaxPages, TRUE, <<RawNameOnly>>),
      Body("object", TRUE, JNull, FALSE, 0, FALSE, <<>>) }

\* "invalid": response.json() raises requests' JSONDecodeError, a RequestException
\* (requests 2.27 and later); "invalid_legacy": it raises a plain ValueError
\* (earlier versions). The repository pins no version.
MalformedBodies ==
    { Body("invalid", FALSE, JNull, FALSE, 0, FALSE, <<>>),
      Body("invalid_legacy", FALSE, JNull, FALSE, 0, FALSE, <<>>),
      Body("array", FALSE, JNull, FALSE, 0, FALSE, <<>>) }

Bodies == PageBodies \cup ErrorBodies \cup MalformedBodies

\* What one requests.get call can produce: a timeout, another connection-level
\* RequestException, or a response with a status code (200, 304, 403, 500) and a body.

Outcome(kind, status, body) == [kind |-> kind, status |-> status, body |-> body]

Outcomes ==
    { Outcome("timeout", 0, None), Outcome("connection", 0, None) }
    \cup { Outcome("response", 403, None), Outcome("response", 500, None) }
    \cup { Outcome("response", 200, b) : b \in Bodies }
    \cup { Outcome("response", 304, PageBody(1)) }

----------------------------------------------------------------------------
(* fetch_page: one pass of its retry loop. *)

\* fetch_page(..., max_retries=2)
max_retries == 2

\* url and params of the request, as they appear in the text of a raised error
Str_Endpoint ==
    <<"h","t","t","p","s",":","/","/","s","c","r","a","p","i","n","g","-","t","r","i",
      "a","l","-","t","e","s","t",".","v","e","r","c","e","l",".","a","p","p","/","a",
      "p","i","/","s","e","a","r","c","h","?","q","=">>

Str_PageParam == <<"&","p","a","g","e","=">>

RequestUrl(q, page) == Str_Endpoint \o QuotePlus(q) \o Str_PageParam \o IntToStr(page)

\* str(e) of the HTTPError response.raise_for_status() raises for a 5xx status
Str_ServerError ==
    <<"5","0","0"," ","S","e","r","v","e","r"," ","E","r","r","o","r",":"," ","I","n",
      "t","e","r","n","a","l"," ","S","e","r","v","e","r"," ","E","r","r","o","r"," ",
      "f","o","r"," ","u","r","l",":"," ">>

HTTPErrorText(q, page) == Str_ServerError \o RequestUrl(q, page)

\* str(e) of a ConnectionError
Str_MaxRetries ==
    <<"M","a","x"," ","r","e","t","r","i","e","s"," ","e","x","c","e","e","d","e","d",
      " ","w","i","t","h"," ","u","r","l",":"," ","/","a","p","i","/","s","e","a","r",
      "c","h","?","q","=">>

ConnectionErrorText(q, page) ==
    Str_MaxRetries \o QuotePlus(q) \o Str_PageParam \o IntToStr(page)

\* str(e) of the JSONDecodeError response.json() raises
Str_ExpectingValue ==
    <<"E","x","p","e","c","t","i","n","g"," ","v","a","l","u","e",":"," ","l","i","n",
      "e"," ","1"," ","c","o","l","u","m","n"," ","1"," ","(","c","h","a","r"," ","0",
      ")">>

\* response.raise_for_status() raises
RaisesForStatus(status) == status >= 400 /\ status < 600

\* bool(response): Response.__bool__ is Response.ok
ResponseTruthy(status) == ~RaisesForStatus(status)

\* 'recaptcha' in text or 'session' in text, on lower-cased text
MentionsSession(text) ==
    LET lowered == Lower(text)
    IN  Contains(lowered, Str_recaptcha) \/ Contains(lowered, Str_session)

\* What one pass of the loop does: act is "return", "retry" (attempt += 1 and sleep)
\* or "raise" (an exception no except clause catches); status and info are the
\* log_message call of the pass (status "" when none is made).
Step(act, status, info, data, err) ==
    [act |-> act, status |-> status, info |-> info, data |-> data, err |-> err]

\* OnTimeout with the budget test off by one: the last timeout is retried too
OnTimeout_OffByOne(att) ==
    IF att > max_retries
    THEN Step("return", "ERROR", "Timeout after", None, "timeout")
    ELSE Step("retry", "RETRY", "Timeout, attempt", None, "none")

\* except requests.exceptions.Timeout
OnTimeout(att) ==
    IF att >= max_retries
    THEN Step("return", "ERROR", "Timeout after", None, "timeout")
    ELSE Step("retry", "RETRY", "Timeout, attempt", None, "none")

\* except requests.exceptions.RequestException as e
OnRequestException(att, text, hasResponse, status) ==
    IF MentionsSession(text)
       \/ (hasResponse /\ ResponseTruthy(status) /\ status = 403)
    THEN Step("return", "ERROR", "Session/ReCAPTCHA error", None, "403")
    ELSE IF att >= max_retries
         THEN Step("return", "ERROR", "Failed after", None, "other")
         ELSE Step("retry", "RETRY", "Attempt", None, "none")

\* response.json() and what follows it
OnBody(att, body, q, page) ==
    CASE body.json = "invalid" ->
            OnRequestException(att, Str_ExpectingValue, FALSE, 0)
      [] body.json = "invalid_legacy" ->
            Step("raise", "", "JSONDecodeError", None, "none")
      [] body.json = "array" ->
            Step("raise", "", "AttributeError", None, "none")
      [] OTHER ->
            IF body.hasError /\ body.error.t # "str"
            THEN Step("raise", "", "AttributeError", None, "none")
            ELSE IF body.hasError /\ MentionsSession(body.error.s)
                 THEN Step("return", "ERROR", "Session/ReCAPTCHA error", None, "403")
                 ELSE Step("return", "SUCCESS", "Retrieved", body, "none")

\* OnResponse without the 403 test: a 403 reaches raise_for_status like any 4xx
OnResponse_No403Test(att, status, body, q, page) ==
    IF RaisesForStatus(status)
    THEN OnRequestException(att, HTTPErrorText(q, page), TRUE, status)
    ELSE OnBody(att, body, q, page)

\* the try block, from requests.get on
OnResponse(att, status, body, q, page) ==
    IF status = 403
    THEN Step("return", "ERROR", "403 Forbidden", None, "403")
    ELSE IF RaisesForStatus(status)
         THEN OnRequestException(att, HTTPErrorText(q, page), TRUE, status)
         ELSE OnBody(att, body, q, page)

LoopPass(o, att, q, page) ==
    CASE o.kind = "timeout"    -> OnTimeout(att)
      [] o.kind = "connection" ->
            OnRequestException(att, ConnectionErrorText(q, page), FALSE, 0)
      [] OTHER                 -> OnResponse(att, o.status, o.body, q, page)

----------------------------------------------------------------------------
(* log_message, extract_needed_fields, append_results_to_file. *)

\* One line of scraper.log: its page and status columns (the timestamp, the query
\* and the free-text detail are not kept). page is the page number; the markers
\* "START" and "1-<total_pages>" are 0 and total_pages.
LogEntry(page, status, info) == [page |-> page, status |-> status]

log_message(l, page, status, info) == Append(l, LogEntry(page, status, info))

EmptyStr == JStr(<<>>)

\* result.get('agent', {}).get(...) raises AttributeError when the agent value is
\* present and has no get method (None, a str)
ExtractRaises(result) == result.agent.t \notin {"absent", "obj"}

\* extract_needed_fields reading 'status' for the filing date
extract_needed_fields_StatusForDate(result) ==
    LET agent == IF result.agent.t = "obj" THEN result.agent.f ELSE NoFields
    IN  [business_name   |-> Get(result.top, "businessName", EmptyStr),
         registration_id |-> Get(result.top, "registrationId", EmptyStr),
         status          |-> Get(result.top, "status", EmptyStr),
         filing_date     |-> Get(result.top, "status", EmptyStr),
         agent_name      |-> Get(agent, "name", EmptyStr),
         agent_address   |-> Get(agent, "address", EmptyStr),
         agent_email     |-> Get(agent, "email", EmptyStr)]

extract_needed_fields(result) ==
    LET agent == IF result.agent.t = "obj" THEN result.agent.f ELSE NoFields
    IN  [business_name   |-> Get(result.top, "businessName", EmptyStr),
         registration_id |-> Get(result.top, "registrationId", EmptyStr),
         status          |-> Get(result.top, "status", EmptyStr),
         filing_date     |-> Get(result.top, "filingDate", EmptyStr),
         agent_name      |-> Get(agent, "name", EmptyStr),
         agent_address   |-> Get(agent, "address", EmptyStr),
         agent_email     |-> Get(agent, "email", EmptyStr)]

\* append_results_to_file writing only the new results back: the file is replaced
append_results_to_file_Overwrite(file, results) == results

\* existing_data.extend(results), written back in full
append_results_to_file(file, results) == file \o results

----------------------------------------------------------------------------
(* What the operator types. *)

QueryInputs   == { Str_acme, Str_SessionInc, <<>> }
SessionInputs == { Str_s1, Str_Blank }
StartPages    == 1..MaxPages
GateInputs    == { Str_s2, Str_QuitPadded, Str_Blank }

----------------------------------------------------------------------------
(* fetch_all_pages: the decisions of its loop. *)

\* AsksForCredential with the 'timeout' test dropped
AsksForCredential_403Only(err) == err = "403"

\* error_type == 'timeout' or error_type == '403'
AsksForCredential(err) == err = "timeout" \/ err = "403"

\* new_session_id.lower() == 'quit'
IsQuit(new_session_id) == Lower(new_session_id) = Str_quit

\* CaptureTotalPages without the `is None` guard: every page overwrites it
CaptureTotalPages_EveryPage(tp, data) ==
    IF data.hasTotalPages THEN data.totalPages ELSE 1

\* if total_pages is None: total_pages = page_data.get('totalPages', 1)
CaptureTotalPages(tp, data) ==
    IF tp = NoneInt
    THEN (IF data.hasTotalPages THEN data.totalPages ELSE 1)
    ELSE tp

\* page_data.get('results', [])
RawResults(data) == IF data.hasResults THEN data.results ELSE <<>>

\* IsLastPage with > for >=: one page past the last is fetched
IsLastPage_Strict(page, tp) == page > tp

\* current_page >= total_pages
IsLastPage(page, tp) == page >= tp

\* NextPage adding 2: a page is skipped
NextPage_Skip(page) == page + 2

\* NextPage adding nothing: the page is fetched again
NextPage_Stay(page) == page

\* current_page += 1
NextPage(page) == page + 1

\* AddCollected with = for +=: the total restarts at every page
AddCollected_Assign(total, filtered) == Len(filtered)

\* total_results_collected += len(filtered_results)
AddCollected(total, filtered) == total + Len(filtered)

\* the call fetch_page(query, current_page, session_id, log_file), given the log
\* as the caller leaves it
CallFetchPage(newLog) ==
    /\ attempt' = 0
    /\ http_attempts' = 0
    /\ call_timeouts' = 0
    /\ call_log_start' = Len(newLog)
    /\ response_status' = 0
    /\ page_data' = None
    /\ error_type' = "none"

----------------------------------------------------------------------------
(* The state machine. *)

Init ==
    /\ pc = "main"
    /\ query = <<>>
    /\ session_id = <<>>
    /\ start_page = 1
    /\ current_page = 1
    /\ total_pages = NoneInt
    /\ total_results_collected = 0
    /\ attempt = 0
    /\ page_data = None
    /\ error_type = "none"
    /\ output_file = <<>>
    /\ log = <<>>
    /\ http_attempts = 0
    /\ call_timeouts = 0
    /\ call_log_start = 0
    /\ response_status = 0
    /\ sent = [page |-> 0, credential |-> <<>>]
    /\ appended = <<>>
    /\ renewals = 0
    /\ run = 1
    /\ first_start = 0
    /\ sink_at_start = 0
    /\ last_outcome = Outcome("none", 0, None)

\* main, up to its call of fetch_all_pages
Main ==
    /\ pc = "main"
    /\ \E q \in QueryInputs, sid \in SessionInputs, sp \in StartPages :
          IF Strip(q) = <<>> \/ Strip(sid) = <<>>
          THEN /\ pc' = "exit"
               /\ UNCHANGED << query, session_id, start_page >>
          ELSE /\ pc' = "start"
               /\ query' = Strip(q)
               /\ session_id' = Strip(sid)
               /\ start_page' = sp
    /\ UNCHANGED << current_page, total_pages, total_results_collected, attempt,
                    page_data, error_type, output_file, log, 
                    http_attempts, call_timeouts, call_log_start, response_status, sent, appended,
                    renewals >>
    /\ UNCHANGED << invocation, last_outcome >>

\* fetch_all_pages, up to its first call of fetch_page
SessionStart ==
    /\ pc = "start"
    /\ log' = log_message(log, 0, "SESSION_START", "Starting scrape")
    /\ current_page' = start_page
    /\ total_pages' = NoneInt
    /\ total_results_collected' = 0
    /\ CallFetchPage(log')
    /\ pc' = "fetch_page"
    /\ UNCHANGED << query, session_id, start_page, output_file, sent, appended,
                    renewals >>
    /\ UNCHANGED << invocation, last_outcome >>

\* fetch_page: one pass of `while attempt <= max_retries`, and, when the pass ends
\* in a retry, the test of the loop condition that follows it (the loop's exit is
\* the final `return None, 'other'`)
AttemptOn(o) ==
    /\ pc = "fetch_page"
    /\ attempt <= max_retries
    /\    LET step    == LoopPass(o, attempt, query, current_page)
              retry   == step.act = "retry"
              exhaust == retry /\ ~(attempt + 1 <= max_retries)
          IN  /\ sent' = [page |-> current_page, credential |-> session_id]
              /\ http_attempts' = http_attempts + 1
              /\ call_timeouts' = call_timeouts + (IF o.kind = "timeout" THEN 1 ELSE 0)
              /\ response_status' = o.status
              /\ log' = IF step.status = ""
                        THEN log
                        ELSE log_message(log, current_page, step.status, step.info)
              /\ attempt' = IF retry THEN attempt + 1 ELSE attempt
              /\ page_data' = step.data
              /\ error_type' = IF exhaust THEN "other" ELSE step.err
              /\ pc' = CASE retry /\ ~exhaust    -> "fetch_page"
                         [] step.act = "raise"  -> "fault_fetch"
                         [] OTHER               -> "returned"
    /\ UNCHANGED << query, session_id, start_page, current_page, total_pages,
                    total_results_collected, output_file, call_log_start, appended,
                    renewals >>
    /\ UNCHANGED invocation

\* fetch_page's pass, under anything the network and the API can answer
Attempt ==
    \E o \in Outcomes : AttemptOn(o) /\ UNCHANGED last_outcome

\* fetch_all_pages: page_data is None with 'timeout' or '403', up to input()
EnterGate ==
    /\ pc = "returned"
    /\ page_data = None
    /\ AsksForCredential(error_type)
    /\ pc' = "gate"
    /\ UNCHANGED << query, session_id, start_page, current_page, total_pages,
                    total_results_collected, attempt, page_data, error_type,
                    output_file, log, http_attempts, call_timeouts,
                    call_log_start, response_status, sent, appended, renewals >>
    /\ UNCHANGED << invocation, last_outcome >>

\* fetch_all_pages: page_data is None with any other error type
StopAfterRetries ==
    /\ pc = "returned"
    /\ page_data = None
    /\ ~AsksForCredential(error_type)
    /\ log' = log_message(log, current_page, "STOPPED", "Failed after retries")
    /\ pc' = "stopped"
    /\ UNCHANGED << query, session_id, start_page, current_page, total_pages,
                    total_results_collected, attempt, page_data, error_type,
                    output_file, http_attempts, call_timeouts, call_log_start,
                    response_status, sent, appended, renewals >>
    /\ UNCHANGED << invocation, last_outcome >>

\* GateQuit leaving the loop before it logs
GateQuit_NoLog ==
    /\ pc = "gate"
    /\ \E typed \in GateInputs :
          /\ IsQuit(Strip(typed))
          /\ log' = log
          /\ pc' = "stopped"
    /\ UNCHANGED << query, session_id, start_page, current_page, total_pages,
                    total_results_collected, attempt, page_data, error_type,
                    output_file, http_attempts, call_timeouts, call_log_start,
                    response_status, sent, appended, renewals >>
    /\ UNCHANGED << invocation, last_outcome >>

\* GateQuit logging the page the run started from
GateQuit_LogsStartPage ==
    /\ pc = "gate"
    /\ \E typed \in GateInputs :
          /\ IsQuit(Strip(typed))
          /\ log' = log_message(log, start_page, "STOPPED", "User chose to quit")
          /\ pc' = "stopped"
    /\ UNCHANGED << query, session_id, start_page, current_page, total_pages,
                    total_results_collected, attempt, page_data, error_type,
                    output_file, http_attempts, call_timeouts, call_log_start,
                    response_status, sent, appended, renewals >>
    /\ UNCHANGED << invocation, last_outcome >>

\* fetch_all_pages: the operator answers 'quit'
GateQuit ==
    /\ pc = "gate"
    /\ \E typed \in GateInputs :
          /\ IsQuit(Strip(typed))
          /\ log' = log_message(log, current_page, "STOPPED", "User chose to quit")
          /\ pc' = "stopped"
    /\ UNCHANGED << query, session_id, start_page, current_page, total_pages,
                    total_results_collected, attempt, page_data, error_type,
                    output_file, http_attempts, call_timeouts, call_log_start,
                    response_status, sent, appended, renewals >>
    /\ UNCHANGED << invocation, last_outcome >>

\* fetch_all_pages: the operator answers anything else; `continue`
GateNewSession ==
    /\ pc = "gate"
    /\ Len(log) < MaxLog
    /\ \E typed \in GateInputs :
          /\ ~IsQuit(Strip(typed))
          /\ session_id' = Strip(typed)
          /\ log' = log_message(log, current_page, "NEW_SESSION", "Entered new session ID")
          /\ renewals' = renewals + 1
          /\ CallFetchPage(log')
          /\ pc' = "fetch_page"
    /\ UNCHANGED << query, start_page, current_page, total_pages,
                    total_results_collected, output_file, sent, appended >>
    /\ UNCHANGED << invocation, last_outcome >>

\* fetch_all_pages: a page was returned; from `if total_pages is None` to the end
\* of the loop body
ProcessPage ==
    /\ pc = "returned"
    /\ page_data # None
    /\ LET tp       == CaptureTotalPages(total_pages, page_data)
           raw      == RawResults(page_data)
           filtered == [i \in 1..Len(raw) |-> extract_needed_fields(raw[i])]
       IN  /\ total_pages' = tp
           /\ IF \E i \in 1..Len(raw) : ExtractRaises(raw[i])
              THEN /\ pc' = "fault_extract"
                   /\ UNCHANGED << output_file, appended, total_results_collected,
                                   log, current_page, attempt, http_attempts, call_timeouts,
                                   call_log_start, response_status, page_data,
                                   error_type >>
              ELSE /\ output_file' = append_results_to_file(output_file, filtered)
                   /\ appended' = Append(appended, current_page)
                   /\ total_results_collected' =
                         AddCollected(total_results_collected, filtered)
                   /\ IF IsLastPage(current_page, tp)
                      THEN /\ log' = log_message(log, tp, "COMPLETED", "All pages fetched")
                           /\ pc' = "done"
                           /\ UNCHANGED << current_page, attempt, http_attempts, call_timeouts,
                                           call_log_start, response_status,
                                           page_data, error_type >>
                      ELSE /\ current_page' = NextPage(current_page)
                           /\ log' = log
                           /\ CallFetchPage(log')
                           /\ pc' = "fetch_page"
    /\ UNCHANGED << query, session_id, start_page, sent, renewals >>
    /\ UNCHANGED << invocation, last_outcome >>

Next ==
    \/ Main
    \/ SessionStart
    \/ Attempt
    \/ EnterGate
    \/ StopAfterRetries
    \/ GateQuit
    \/ GateNewSession
    \/ ProcessPage

Spec == Init /\ [][Next]_vars

----------------------------------------------------------------------------
(* One returned page holding one raw record of any shape, handed to the loop body
   of fetch_all_pages: the record's top-level keys are each absent or hold a
   string, null or a number, and its 'agent' is absent, null, a string, or an
   object whose keys are each absent or hold a string, null or a number. *)

TopKeys   == {"businessName", "registrationId", "status", "filingDate"}
AgentKeys == {"name", "address", "email"}

JsonValues == { JStr(<<"v">>), JNull, JNum(<<"7">>) }

\* the objects over the given keys: every subset of the keys, every value for each
Objects(keys) == UNION { [present -> JsonValues] : present \in SUBSET keys }

RawRecords ==
    { RawRecord(top, "obj", f) : top \in Objects(TopKeys), f \in Objects(AgentKeys) }
    \cup { RawRecord(top, k, NoFields) :
             top \in Objects(TopKeys), k \in {"absent", "null", "str"} }

InitExtract ==
    /\ pc = "returned"
    /\ query = Str_acme
    /\ session_id = Str_s1
    /\ start_page = 1
    /\ current_page = 1
    /\ total_pages = NoneInt
    /\ total_results_collected = 0
    /\ attempt = 0
    /\ \E raw \in RawRecords :
          page_data = Body("object", FALSE, JNull, TRUE, 1, TRUE, <<raw>>)
    /\ error_type = "none"
    /\ output_file = <<>>
    /\ log = log_message(log_message(<<>>, 0, "SESSION_START", "Starting new search"),
                         1, "SUCCESS", "Response received")
    /\ http_attempts = 1
    /\ call_timeouts = 0
    /\ call_log_start = 1
    /\ response_status = 200
    /\ sent = [page |-> 1, credential |-> Str_s1]
    /\ appended = <<>>
    /\ renewals = 0
    /\ run = 1
    /\ first_start = 0
    /\ sink_at_start = 0
    /\ last_outcome = Outcome("none", 0, None)

NextExtract == ProcessPage

SpecExtract == InitExtract /\ [][NextExtract]_vars

----------------------------------------------------------------------------
(* The first fetch_page call of an invocation, with the outcome of its latest
   attempt kept in last_outcome. *)

AttemptTraced ==
    \E o \in Outcomes : AttemptOn(o) /\ last_outcome' = o

NextFetch ==
    \/ Main
    \/ SessionStart
    \/ AttemptTraced

SpecFetch == Init /\ [][NextFetch]_vars

----------------------------------------------------------------------------
(* A stopped invocation resumed by a second one, against an API that answers a
   page with the same body every time it answers it. *)

\* The one record of page p: its businessName is the page number.
StableRaw(p) ==
    RawRecord([k \in {"businessName"} |-> JStr(IntToStr(p))], "absent", NoFields)

\* The body of page p: MaxPages pages in all, one record on each, none beyond.
StableBody(p) ==
    Body("object", FALSE, JNull, TRUE, MaxPages, TRUE,
         IF p <= MaxPages THEN <<StableRaw(p)>> ELSE <<>>)

\* The request for page p times out, is refused, fails, or is answered.
StableOutcomes(p) ==
    { Outcome("timeout", 0, None),
      Outcome("response", 403, None),
      Outcome("response", 500, None),
      Outcome("response", 200, StableBody(p)) }

\* fetch_page's pass, under the stable API
AttemptStable ==
    \E o \in StableOutcomes(current_page) : AttemptOn(o) /\ UNCHANGED last_outcome

\* A fresh invocation after a stopped one: main, with the page of the STOPPED line
\* typed as the starting page, up to its call of fetch_all_pages (where
\* setup_output_file keeps the existing output.json and scraper.log is appended to).
Resume ==
    /\ pc = "stopped"
    /\ run = 1
    /\ run' = 2
    /\ first_start' = start_page
    /\ sink_at_start' = Len(output_file)
    /\ start_page' = log[Len(log)].page
    /\ \E sid \in SessionInputs :
          /\ Strip(sid) # <<>>
          /\ session_id' = Strip(sid)
    /\ appended' = <<>>
    /\ renewals' = 0
    /\ pc' = "start"
    /\ UNCHANGED << query, current_page, total_pages, total_results_collected,
                    attempt, page_data, error_type, output_file, log, http_attempts,
                    call_timeouts, call_log_start, response_status, sent,
                    last_outcome >>

NextResume ==
    \/ Main
    \/ SessionStart
    \/ AttemptStable
    \/ EnterGate
    \/ StopAfterRetries
    \/ GateQuit
    \/ GateNewSession
    \/ ProcessPage
    \/ Resume

SpecResume == Init /\ [][NextResume]_vars

----------------------------------------------------------------------------
(* Properties. *)

InRun == pc \notin {"main", "start", "exit"}

Is2xx(status) == status >= 200 /\ status <= 299

\* the status column of the lines the current fetch_page call has logged
CallLog == [i \in 1..(Len(log) - call_log_start) |-> log[call_log_start + i].status]

\* C1: inside fetch_all_pages the cursor never decreases; it grows by exactly 1 in
\* the step that persists a page which is not the last one, and no other step
\* changes it; the credential replacement leaves it alone, so the request after a
\* replacement carries the page number of the request that failed.
C1_CursorMonotone ==
    [][ /\ InRun =>
             IF appended' # appended /\ pc' = "fetch_page"
             THEN current_page' = current_page + 1
             ELSE current_page' = current_page
        /\ (pc = "gate" /\ pc' = "fetch_page") =>
             /\ current_page' = current_page
             /\ sent.page = current_page
        /\ pc = "fetch_page" => sent'.page = current_page
      ]_vars

\* C1 witness: the cursor advanced once after a credential replacement
C1_Witness ==
    /\ pc = "fetch_page"
    /\ renewals > 0
    /\ current_page = start_page + 1

\* C2: the batches appended to the sink in one run are those of the pages
\* start_page, start_page + 1, ... in order, each once, and they are all the pages
\* below the cursor (the cursor's page too, once the run is done).
C2_ConsecutivePages ==
    InRun =>
        /\ \A i \in 1..Len(appended) : appended[i] = start_page + i - 1
        /\ Len(appended) = current_page - start_page + (IF pc = "done" THEN 1 ELSE 0)

\* C2 witness: two pages persisted in a run that saw a retry and a replacement
C2_Witness ==
    /\ pc = "done"
    /\ Len(appended) = 2
    /\ renewals > 0
    /\ \E i \in 1..Len(log) : log[i].status = "RETRY"

\* C3: after a failed fetch_page the driver's step depends on the failure kind
\* alone: '403' and 'timeout' lead to the gate, with no STOPPED line; 'other'
\* leads to STOPPED, with a STOPPED line for the cursor's page, and not to the gate.
C3_FailureRouting ==
    [][ (pc = "returned" /\ page_data = None) =>
           /\ error_type \in {"403", "timeout", "other"}
           /\ error_type \in {"403", "timeout"} => (pc' = "gate" /\ log' = log)
           /\ error_type = "other" =>
                 /\ pc' = "stopped"
                 /\ log' = Append(log, [page |-> current_page, status |-> "STOPPED"])
      ]_vars

\* C3 witness: a run that visited the gate and later stopped on 'other'
C3_Witness ==
    /\ pc = "stopped"
    /\ error_type = "other"
    /\ renewals > 0

\* C4: an attempt that receives status 403 ends the fetch_page call at once with
\* (None, '403'), whatever the number of earlier retries, and the driver's next
\* step is the gate.
C4_No403Retry ==
    [][ /\ (pc = "fetch_page" /\ response_status' = 403) =>
             /\ pc' = "returned"
             /\ page_data' = None
             /\ error_type' = "403"
             /\ attempt' = attempt
        /\ (pc = "returned" /\ response_status = 403) =>
             /\ pc' = "gate"
             /\ http_attempts' = http_attempts
      ]_vars

\* C4 witness: at the gate after a 403 that followed two retries
C4_Witness ==
    /\ pc = "gate"
    /\ response_status = 403
    /\ attempt = 2

\* C5: a fetch_page call whose attempts all timed out has made 3 HTTP attempts,
\* has logged RETRY, RETRY, ERROR and returns (None, 'timeout').
C5_TimeoutExhaustion ==
    (pc = "returned" /\ call_timeouts = http_attempts) =>
        /\ http_attempts = 3
        /\ CallLog = <<"RETRY", "RETRY", "ERROR">>
        /\ page_data = None
        /\ error_type = "timeout"

\* C5 witness: a call returned after three timeouts
C5_Witness ==
    /\ pc = "returned"
    /\ call_timeouts = 3

\* C6: total_pages is set by the first page the run processes, from that page's
\* totalPages (1 when the page has none), and no later step changes it.
C6_TotalPagesLockIn ==
    [][ /\ (InRun /\ total_pages # NoneInt) => total_pages' = total_pages
        /\ (InRun /\ total_pages = NoneInt /\ total_pages' # NoneInt) =>
             /\ pc = "returned"
             /\ page_data # None
             /\ appended = <<>>
             /\ total_pages' =
                  (IF page_data.hasTotalPages THEN page_data.totalPages ELSE 1)
      ]_vars

\* C6 witness: the run completed on a page reporting another totalPages than the
\* one captured from the first page
C6_Witness ==
    /\ pc = "done"
    /\ Len(appended) = 2
    /\ page_data.hasTotalPages
    /\ page_data.totalPages # total_pages

\* C7 (as claimed): the credential of the run, and of every request sent, is a
\* non-empty string.
C7_CredentialNonEmpty ==
    /\ InRun => session_id # <<>>
    /\ sent.page # 0 => sent.credential # <<>>

\* C8 (as claimed): a response whose status is neither 2xx nor 403 is never
\* returned as '403' (SessionInvalid), whatever the query.
C8_Non2xxNeverSessionInvalid ==
    (pc = "returned" /\ response_status # 0
       /\ ~Is2xx(response_status) /\ response_status # 403) =>
        error_type # "403"

\* C9 (as claimed): no exception leaves fetch_page, and what it returns is either
\* (page, None) or (None, kind) with kind one of 'timeout', '403', 'other'.
C9_AlwaysClassified ==
    /\ pc # "fault_fetch"
    /\ pc = "returned" =>
         \/ (page_data # None /\ error_type = "none")
         \/ (page_data = None /\ error_type \in {"timeout", "403", "other"})

\* C10 (as claimed): a body that carries an error field is never returned as a
\* successful page.
C10_ErrorBodyNeverSuccess ==
    (pc = "returned" /\ page_data # None) => ~page_data.hasError

\* C11 (as claimed): the lines a fetch_page call has written are as many as the HTTP
\* attempts it has made, each a SUCCESS, RETRY or ERROR line, also when the call
\* ends.
C11_OneLogPerAttempt ==
    pc \in {"fetch_page", "returned", "fault_fetch"} =>
        /\ Len(CallLog) = http_attempts
        /\ \A i \in 1..Len(CallLog) : CallLog[i] \in {"SUCCESS", "RETRY", "ERROR"}

Max(a, b) == IF a >= b THEN a ELSE b

\* C12 (as claimed): the driver is DONE only with the cursor equal to the captured
\* total page count.
C12_DoneAtTotal ==
    pc = "done" => current_page = total_pages

\* C12 (amended): the driver is DONE only with total_pages captured and the cursor
\* equal to the larger of start_page and total_pages, every page from start_page
\* to the cursor persisted in order; so the cursor equals total_pages exactly when
\* start_page is not above it.
C12_DoneAtMaxOfStartAndTotal ==
    pc = "done" =>
        /\ total_pages # NoneInt
        /\ current_page = Max(start_page, total_pages)
        /\ appended = [i \in 1..(current_page - start_page + 1) |-> start_page + i - 1]

\* C12 witness: DONE from a start page above the captured total
C12_Witness ==
    /\ pc = "done"
    /\ start_page > total_pages
    /\ appended = <<start_page>>

\* the filtered record of page p under the stable API
StableFiltered(p) ==
    [business_name   |-> JStr(IntToStr(p)),
     registration_id |-> JStr(<<>>),
     status          |-> JStr(<<>>),
     filing_date     |-> JStr(<<>>),
     agent_name      |-> JStr(<<>>),
     agent_address   |-> JStr(<<>>),
     agent_email     |-> JStr(<<>>)]

\* the records of the pages from, from + 1, ..., MaxPages, in page order
StableSink(from) == [i \in 1..(MaxPages - from + 1) |-> StableFiltered(from + i - 1)]

\* C13: under the stable API, when an invocation is DONE the sink holds the
\* records of every page from the start page to the total page count, once each
\* and in page order, whether the invocation ran uninterrupted (the pages from its
\* own start page) or resumed a stopped one at the page that one logged (the
\* pages from the stopped one's start page).
C13_IdempotentResume ==
    pc = "done" =>
        output_file = StableSink(IF run = 1 THEN start_page ELSE first_start)

\* C13 witness: a run from page 1 stopped at page 2 and was resumed from page 2 to
\* DONE
C13_Witness ==
    /\ pc = "done"
    /\ run = 2
    /\ first_start = 1
    /\ start_page = 2

\* how many lines of scraper.log carry one of the given statuses
CountStatus(statuses) == Cardinality({ i \in 1..Len(log) : log[i].status \in statuses })

Terminal == {"STOPPED", "COMPLETED"}

\* C14: a run's first line is its only SESSION_START line; while the run goes on
\* it has no STOPPED or COMPLETED line, and when it has returned (DONE or STOPPED)
\* it has exactly one, which is its last line. A run whose first request gets a 403
\* and whose operator answers 'quit' returns 0 and has logged SESSION_START, the
\* ERROR of the 403 and STOPPED.
C14_StartAndTerminalLines ==
    InRun =>
        /\ log[1].status = "SESSION_START"
        /\ CountStatus({"SESSION_START"}) = 1
        /\ IF pc \in {"done", "stopped"}
           THEN CountStatus(Terminal) = 1 /\ log[Len(log)].status \in Terminal
           ELSE CountStatus(Terminal) = 0
        /\ (pc = "stopped" /\ renewals = 0 /\ appended = <<>>
              /\ http_attempts = 1 /\ response_status = 403) =>
             /\ total_results_collected = 0
             /\ log = << [page |-> 0, status |-> "SESSION_START"],
                         [page |-> start_page, status |-> "ERROR"],
                         [page |-> start_page, status |-> "STOPPED"] >>

\* C14 witness: the first request got a 403 and the operator answered 'quit'
C14_Witness ==
    /\ pc = "stopped"
    /\ renewals = 0
    /\ appended = <<>>
    /\ http_attempts = 1
    /\ response_status = 403

\* C15: inside a run total_results_collected is the number of records the run has
\* added to the sink, and no step of the run lowers it; under the stable API a
\* first run from page 1 that is DONE returns one record per page (2 for two pages).
C15_RunTotal ==
    [][ /\ InRun' =>
             total_results_collected' = Len(output_file') - sink_at_start'
        /\ (InRun /\ InRun' /\ run' = run) =>
             total_results_collected' >= total_results_collected
        /\ (pc' = "done" /\ run' = 1 /\ start_page' = 1) =>
             total_results_collected' = MaxPages
      ]_vars

\* C15 witness: a resumed run is DONE, with records of its own and of the run before
C15_Witness ==
    /\ pc = "done"
    /\ run = 2
    /\ sink_at_start > 0
    /\ total_results_collected > 0

\* C18: when the driver has STOPPED, the last line of the log is a STOPPED line
\* carrying the cursor, and the pages the run has persisted are exactly those from
\* start_page up to the one before the cursor.
C18_StoppedAtFirstMissingPage ==
    pc = "stopped" =>
        /\ log[Len(log)] = [page |-> current_page, status |-> "STOPPED"]
        /\ appended = [i \in 1..(current_page - start_page) |-> start_page + i - 1]

\* C18 witness: stopped by the operator on the second page, the first persisted
C18_Witness ==
    /\ pc = "stopped"
    /\ error_type \in {"403", "timeout"}
    /\ start_page = 1
    /\ current_page = 2

OutputKeys ==
    {"business_name", "registration_id", "status", "filing_date",
     "agent_name", "agent_address", "agent_email"}

\* the raw record of the returned page, and what reached the sink for it
TheRaw == page_data.results[1]

\* C16: extract_needed_fields never fails, and every field of every record it
\* hands to the sink is a string.
C16_TotalAndStringValued ==
    /\ pc # "fault_extract"
    /\ \A i \in 1..Len(output_file) : \A k \in OutputKeys : output_file[i][k].t = "str"

\* the value a raw record holds for an output key, or "missing"
SourceOf(raw, k) ==
    LET agent == IF raw.agent.t = "obj" THEN raw.agent.f ELSE NoFields
        d     == IF k \in {"agent_name", "agent_address", "agent_email"}
                 THEN agent ELSE raw.top
        key   == CASE k = "business_name"   -> "businessName"
                   [] k = "registration_id" -> "registrationId"
                   [] k = "status"          -> "status"
                   [] k = "filing_date"     -> "filingDate"
                   [] k = "agent_name"      -> "name"
                   [] k = "agent_address"   -> "address"
                   [] k = "agent_email"     -> "email"
    IN  IF key \in DOMAIN d THEN << "present", d[key] >> ELSE << "missing", JNull >>

\* C17: for a raw record whose agent is absent or an object, the record that
\* reaches the sink has exactly the seven output keys, with the empty string where
\* the source key is missing and the source value itself where it is present.
C17_MissingSlotsEmpty ==
    (pc = "done" /\ TheRaw.agent.t \in {"absent", "obj"}) =>
        /\ Len(output_file) = 1
        /\ DOMAIN output_file[1] = OutputKeys
        /\ \A k \in OutputKeys :
              LET src == SourceOf(TheRaw, k)
              IN  output_file[1][k] = IF src[1] = "missing" THEN EmptyStr ELSE src[2]

\* C17 witness: a record with a business name, no filing date and no agent at all
C17_Witness ==
    /\ pc = "done"
    /\ TheRaw.agent.t = "absent"
    /\ "businessName" \in DOMAIN TheRaw.top
    /\ "filingDate" \notin DOMAIN TheRaw.top
    /\ "status" \in DOMAIN TheRaw.top
    /\ output_file[1].filing_date = EmptyStr
    /\ output_file[1].agent_email = EmptyStr

\* an attempt that timed out
IsTimeoutOutcome(o) == o.kind = "timeout"

\* an attempt that failed otherwise and is not an explicit 403: no connection, a
\* status that raise_for_status rejects, or a body that is not JSON
IsTransientOutcome(o) ==
    \/ o.kind = "connection"
    \/ /\ o.kind = "response"
       /\ o.status # 403
       /\ RaisesForStatus(o.status) \/ o.body.json = "invalid"

\* C19: one fetch_page call makes at most max_retries + 1 = 3 HTTP attempts; it is
\* about to make a further one only when its latest attempt timed out or failed
\* transiently; and when it returns after its third attempt the kind it returns
\* is that of the third attempt: 'timeout' if it timed out, 'other' if it failed
\* transiently.
C19_SharedBudget ==
    /\ http_attempts <= max_retries + 1
    /\ (pc = "fetch_page" /\ http_attempts > 0) =>
          /\ attempt = http_attempts
          /\ IsTimeoutOutcome(last_outcome) \/ IsTransientOutcome(last_outcome)
    /\ (pc = "returned" /\ http_attempts = max_retries + 1) =>
          /\ IsTimeoutOutcome(last_outcome) => error_type = "timeout"
          /\ IsTransientOutcome(last_outcome) => error_type = "other"

\* C20: a fetch_page call makes at most max_retries + 1 attempts and returns, and
\* the program never stops anywhere but at the end of main or at the end of a run
\* that is DONE or STOPPED: in every other state it has a next step to take.
C20_Terminates ==
    /\ http_attempts <= max_retries + 1
    /\ pc \in {"exit", "done", "stopped"} \/ ENABLED Next

====
